---------------------------- MODULE Spec2Model ----------------------------
(***************************************************************************)
(* State-machine model of the R2D2 annotation conversion scripts:          *)
(*   scripts/annotation/json2stitched.py                  ("stitched")     *)
(*   scripts/annotation/stereo-conversion/full_svo2stereo.py    ("full")   *)
(*   scripts/annotation/stereo-conversion/sharded_svo2stereo.py ("sharded")*)
(* A process is one invocation of a script.  The remote store, the         *)
(* conversion tools and the operator's Ctrl-C are the environment: every   *)
(* call into them has its outcome chosen nondeterministically.             *)
(***************************************************************************)
EXTENDS Integers, Sequences, FiniteSets, TLC

VARIABLES
    now,        \* the UTC clock read by utcnow()
    store,      \* metadata keys that exist under the remote prefix
    disk,       \* ledger files: path -> [exists, data]
    cfg,        \* per process: script, ledger path, host
    pc,         \* per process: position in the script
    run,        \* per process: REBUILD_CACHE of this invocation, listing seen
    cache,      \* per process: the in-memory `cache` dict of dicts
    work,       \* per process: keys of the for-loop not yet reached
    fpath,      \* per process: the loop variable `fpath` (0 = none)
    loc,        \* per process: locals of the loop body
    counts,     \* per process: n_success, n_errored
    scratch,    \* per host: files of the fixed scratch directories
    runs,       \* number of invocations started so far
    inserted,   \* history: per ledger path, keys rebuild ever inserted
    uploads,    \* history: <<key, content>> of every object uploaded
    result,     \* history: per process, outcome of each key in this run
    todo,       \* history: per process, keys of the work list at loop start
    prev        \* history: per process, summary of the previous invocation

vars == <<now, store, disk, cfg, pc, run, cache, work, fpath, loc, counts, scratch,
          runs, inserted, uploads, result, todo, prev>>

(***************************************************************************)
(* Bounds of the model.                                                    *)
(***************************************************************************)
NKeys == 3       \* metadata keys of the single-run specification
NListed == 2     \* metadata keys of the repeated-run specification
MaxTime == 1     \* last value of the clock
MaxRuns == 2     \* script invocations of a behaviour
MaxShards == 3   \* largest shard count N
NSharded == 2    \* metadata keys of the sharded specification

Keys == 1 .. NKeys

(***************************************************************************)
(* Object names of the remote listing.  Keys are metadata objects          *)
(* "<k>.json"; DirMarker is the prefix's own directory object and TsObject *)
(* a legacy "<...>_timestamps.json" file.  Names are character sequences   *)
(* so that str.endswith is computed, not assumed.                          *)
(***************************************************************************)
DirMarker == 0
TsObject == -1
Objects == Keys \cup {DirMarker, TsObject}

DotJson == <<".", "j", "s", "o", "n">>
TimestampsJson ==
    <<"_", "t", "i", "m", "e", "s", "t", "a", "m", "p", "s">> \o DotJson

Name(o) ==
    IF o = DirMarker THEN <<"l", "a", "b", "/">>
    ELSE IF o = TsObject THEN <<"1">> \o TimestampsJson
    ELSE <<ToString(o)>> \o DotJson

EndsWith(s, suffix) ==
    /\ Len(s) >= Len(suffix)
    /\ SubSeq(s, Len(s) - Len(suffix) + 1, Len(s)) = suffix

(***************************************************************************)
(* Python dicts keep insertion order: a dict is a sequence of <<key,       *)
(* value>> pairs with distinct keys.                                       *)
(***************************************************************************)
DictKeys(d) == [i \in 1 .. Len(d) |-> d[i][1]]

KeySet(d) == {d[i][1] : i \in 1 .. Len(d)}

Has(d, k) == k \in KeySet(d)

DictGet(d, k) == d[CHOOSE i \in 1 .. Len(d) : d[i][1] = k][2]

DictValues(d) == {d[i][2] : i \in 1 .. Len(d)}

DictSet(d, k, v) ==
    IF Has(d, k)
    THEN [i \in 1 .. Len(d) |-> IF d[i][1] = k THEN <<k, v>> ELSE d[i]]
    ELSE Append(d, <<k, v>>)

DictPop(d, k) == SelectSeq(d, LAMBDA e : e[1] # k)

EmptyCache ==
    [new |-> <<>>, exported |-> <<>>, failure_trajectories |-> <<>>,
     errored |-> <<>>]

\* A ledger file: whether it exists, whether pickle.load / json.load can
\* read it, and the cache it holds.
NoFile == [exists |-> FALSE, readable |-> FALSE, data |-> EmptyCache]

File(c) == [exists |-> TRUE, readable |-> TRUE, data |-> c]

\* A file in a format the loader cannot read (truncated, not a pickle).
Unreadable == [exists |-> TRUE, readable |-> FALSE, data |-> EmptyCache]


(***************************************************************************)
(* Per-script constants.                                                   *)
(***************************************************************************)
Scripts == {"stitched", "full", "sharded"}

Stereo(script) == script \in {"full", "sharded"}

\* CACHE_FILE of the two unsharded scripts (a path is <<name, shard index>>).
CACHE_FILE(script) ==
    IF script = "stitched" THEN <<"X-CONVERT-CACHE.pkl", 0>>
    ELSE <<"X-STEREO-CONVERT-CACHE.pkl", 0>>

\* The shard file X-SHARD-{i}.json.
ShardFile(i) == <<"X-SHARD-{i}.json", i>>

\* Local names the raw files are downloaded to, in download order.  The
\* scratch directory `tmp` is a fixed path: "/tmp/r2d2-conversion" for
\* json2stitched, "/tmp/r2d2-stereo-conversion" for both stereo scripts, so
\* its files are per host, not per process.
RawFiles(script) ==
    IF script = "stitched" THEN <<"left.mp4", "right.mp4">>
    ELSE <<"left.svo", "right.svo", "wrist.svo">>

\* Local names of the files that are uploaded, in upload order.
OutFiles(script) ==
    IF script = "stitched" THEN <<"fused.mp4">>
    ELSE <<"left-stereo.mp4", "right-stereo.mp4", "wrist-stereo.mp4">>

AllFiles ==
    {"left.mp4", "right.mp4", "fused.mp4", "left.svo", "right.svo",
     "wrist.svo", "left-stereo.mp4", "right-stereo.mp4", "wrist-stereo.mp4"}

\* The bucket whose keys the for-loop walks.
IterBucket(script, c) == IF script = "stitched" THEN c.errored ELSE c.new

\* str(bool) as the f-strings of the messages print it.
PyBool(b) == IF b THEN "True" ELSE "False"

ConvertMsg(flags) ==
    <<"Error: Failure to Convert SVO -- ", PyBool(flags[1]), PyBool(flags[2]),
      PyBool(flags[3])>>

UploadMsg(flags) ==
    <<"Error: Failure to Upload MP4 -- ", PyBool(flags[1]), PyBool(flags[2]),
      PyBool(flags[3])>>

\* f"Error: {e}" and f"Error: {err_msg}".
ErrorMsg(e) == <<"Error: ", e>>

\* Variant: only the first flag is looked at.
AllTrue_FirstOnly(flags) == flags[1]

AllTrue(flags) == \A i \in 1 .. Len(flags) : flags[i]

(***************************************************************************)
(* Step 1 of the unsharded scripts: the rebuild over a remote listing.     *)
(***************************************************************************)
RECURSIVE SortedSeq(_)
SortedSeq(S) ==
    IF S = {} THEN <<>>
    ELSE LET m == CHOOSE x \in S : \A y \in S : x <= y
         IN  <<m>> \o SortedSeq(S \ {m})

\* Variant: the filter lets the legacy timestamps files through.
Skipped_OnlyNonJson(o) == ~EndsWith(Name(o), DotJson)

\* The `continue` of the filter: parent prefix or legacy timestamps file.
Skipped(o) ==
    EndsWith(Name(o), TimestampsJson) \/ ~EndsWith(Name(o), DotJson)

\* `assert fpath.endswith(".json")` fails for an object that passed the
\* filter.
AssertFails(listing) ==
    \E o \in listing : ~Skipped(o) /\ ~EndsWith(Name(o), DotJson)

\* Variant: the insertion guard looks at `errored` only.
RebuildOne_NoExportedCheck(c, o, t) ==
    IF Skipped(o) THEN c
    ELSE IF ~Has(c.errored, o)
         THEN [c EXCEPT !.new = DictSet(c.new, o, t)]
         ELSE c

\* One iteration of the inner loop over page["Contents"].
RebuildOne(c, o, t) ==
    IF Skipped(o) THEN c
    ELSE IF ~(Has(c.exported, o) \/ Has(c.errored, o))
         THEN [c EXCEPT !.new = DictSet(c.new, o, t)]
         ELSE c

RECURSIVE RebuildOver(_, _, _)
RebuildOver(c, objs, t) ==
    IF objs = <<>> THEN c
    ELSE RebuildOver(RebuildOne(c, Head(objs), t), Tail(objs), t)

\* The keys for which the insertion statement runs.
RebuildInserts(c, listing) == {o \in listing : RebuildOne(c, o, -1) # c}

BucketSets(c) ==
    [new |-> KeySet(c.new), exported |-> KeySet(c.exported),
     failure_trajectories |-> KeySet(c.failure_trajectories),
     errored |-> KeySet(c.errored)]

(***************************************************************************)
(* Processes, hosts, ledger paths.                                         *)
(***************************************************************************)
Procs == {1, 2}

Paths ==
    {CACHE_FILE("stitched"), CACHE_FILE("full")}
        \cup {ShardFile(i) : i \in 1 .. MaxShards}

Hosts == {1, 2}

\* One operator runs one unsharded script on host 1; the other process slot
\* stays unused.
Unsharded(script) ==
    [script |-> script, ledger |-> CACHE_FILE(script), host |-> 1]

NoCfg == [script |-> "none", ledger |-> CACHE_FILE("full"), host |-> 1]

\* Locals of the loop body: raw files downloaded, the conversion and upload
\* flags obtained, the bucket and message decided, whether the handler runs;
\* `env` is the history of the calls issued for the key, <<call, outcome>>.
InitLoc == [dl |-> 0, conv |-> <<>>, up |-> <<>>, dest |-> "", msg |-> <<>>,
            exc |-> FALSE, env |-> <<>>]

\* Number of calls of one kind issued for the key.
Issued(env, call) == Cardinality({i \in 1 .. Len(env) : env[i][1] = call})

\* What the environment did to the key: marked unusable, failed at some
\* step (an exception or a reported failure), or let every step succeed.
Fate(env) ==
    IF \E i \in 1 .. Len(env) : env[i] = <<"fetch", "unusable">>
    THEN "unusable"
    ELSE IF \E i \in 1 .. Len(env) : env[i][2] \in {"raise", "False"}
    THEN "failed"
    ELSE "ok"

NoRun == [rebuild |-> FALSE, status |-> "none", client |-> FALSE]

NoCounts == [n_success |-> 0, n_errored |-> 0]

NoResult == [k \in Keys |-> "none"]

NoSets == BucketSets(EmptyCache)

EmptyScratch == [h \in Hosts |-> [f \in AllFiles |-> {}]]

(***************************************************************************)
(* Script start: client creation and the load of the ledger.  The          *)
(* unsharded scripts start from the empty cache when CACHE_FILE does not   *)
(* exist; the sharded script's __main__ asserts that the shard exists.     *)
(* REBUILD_CACHE is the module-level switch the operator edits.            *)
(***************************************************************************)
Loaded(p) ==
    IF disk[cfg[p].ledger].exists THEN disk[cfg[p].ledger].data ELSE EmptyCache

\* The process starts (sharded: the assertion of __main__ passes) and
\* creates the S3 session and client.
Start(p) ==
    /\ pc[p] = "idle"
    /\ cfg[p].script \in Scripts
    /\ runs < MaxRuns
    /\ cfg[p].script = "sharded" => disk[cfg[p].ledger].exists
    /\ \E REBUILD_CACHE \in
            (IF cfg[p].script = "sharded" THEN {FALSE} ELSE BOOLEAN) :
          run' = [run EXCEPT ![p] = [rebuild |-> REBUILD_CACHE,
                                     status |-> "running", client |-> TRUE]]
    /\ pc' = [pc EXCEPT ![p] = "load"]
    /\ runs' = runs + 1
    /\ UNCHANGED <<now, store, disk, cfg, cache, work, fpath, loc, counts,
                   scratch, inserted, uploads, result, todo, prev>>

\* What list_objects_v2 returns under the prefix: the prefix's directory
\* object, the legacy timestamps file, and the metadata keys of the store.
Listing == store \cup {DirMarker, TsObject}

\* The process ends: its memory is gone.  `prev` keeps how this invocation
\* ended: REBUILD_CACHE, the status, whether every invocation so far ran to
\* completion, the fate of each key, the keys not reached, the key sets of
\* the cache c that is in memory at exit.
ExitWith(p, status, c) ==
    /\ pc' = [pc EXCEPT ![p] = "idle"]
    /\ prev' = [prev EXCEPT ![p] = [rebuild |-> run[p].rebuild,
                                    status |-> status,
                                    client |-> run[p].client,
                                    clean |-> @.clean /\ status = "complete",
                                    result |-> result[p],
                                    rest |-> {work[p][i] : i \in 1 .. Len(work[p])},
                                    sets |-> BucketSets(c)]]
    /\ run' = [run EXCEPT ![p] = NoRun]
    /\ cache' = [cache EXCEPT ![p] = EmptyCache]
    /\ work' = [work EXCEPT ![p] = <<>>]
    /\ fpath' = [fpath EXCEPT ![p] = 0]
    /\ loc' = [loc EXCEPT ![p] = InitLoc]
    /\ counts' = [counts EXCEPT ![p] = NoCounts]
    /\ result' = [result EXCEPT ![p] = NoResult]
    /\ todo' = [todo EXCEPT ![p] = {}]

Exit(p, status) == ExitWith(p, status, cache[p])

\* The empty cache literal, then the load of the ledger file when it exists.
\* pickle.load / json.load raise on a file they cannot read; the load is
\* outside the try block, so the process ends there.
Load(p) ==
    /\ pc[p] = "load"
    /\ IF disk[cfg[p].ledger].exists /\ ~disk[cfg[p].ledger].readable
       THEN /\ Exit(p, "crashed")
            /\ UNCHANGED <<now, store, disk, cfg, scratch, runs, inserted,
                           uploads>>
       ELSE /\ cache' = [cache EXCEPT ![p] = Loaded(p)]
            /\ pc' = [pc EXCEPT ![p] = IF run[p].rebuild THEN "rebuild"
                                       ELSE "loop"]
            /\ UNCHANGED <<now, store, disk, cfg, run, work, fpath, loc,
                           counts, scratch, runs, inserted, uploads, result,
                           todo, prev>>

\* Variant: a missing shard file is read as the empty cache, as the
\* unsharded scripts do with a missing CACHE_FILE.
StartFail_EmptyCache(p) ==
    /\ pc[p] = "idle"
    /\ cfg[p].script = "sharded"
    /\ runs < MaxRuns
    /\ ~disk[cfg[p].ledger].exists
    /\ run' = [run EXCEPT ![p] = [rebuild |-> FALSE, status |-> "running",
                                  client |-> TRUE]]
    /\ pc' = [pc EXCEPT ![p] = "load"]
    /\ runs' = runs + 1
    /\ UNCHANGED <<now, store, disk, cfg, cache, work, fpath, loc, counts,
                   scratch, inserted, uploads, result, todo, prev>>

\* sharded __main__: `assert shard_file.exists()` fails; the process ends
\* before sharded_svo2stereo is called.
StartFail(p) ==
    /\ pc[p] = "idle"
    /\ cfg[p].script = "sharded"
    /\ runs < MaxRuns
    /\ ~disk[cfg[p].ledger].exists
    /\ Exit(p, "usage")
    /\ runs' = runs + 1
    /\ UNCHANGED <<now, store, disk, cfg, scratch, inserted, uploads>>

\* Step 1: the whole rebuild loop over a non-empty listing, then the write
\* of the cache file.
Rebuild(p) ==
    /\ pc[p] = "rebuild"
    /\ IF AssertFails(Listing)
       THEN /\ Exit(p, "assertion")
            /\ UNCHANGED <<now, store, disk, cfg, scratch, runs, inserted,
                           uploads>>
       ELSE /\ cache' = [cache EXCEPT
                            ![p] = RebuildOver(@, SortedSeq(Listing), now)]
            /\ inserted' = [inserted EXCEPT ![cfg[p].ledger] =
                                @ \cup RebuildInserts(cache[p], Listing)]
            /\ disk' = [disk EXCEPT ![cfg[p].ledger] = File(cache'[p])]
            /\ pc' = [pc EXCEPT ![p] = "loop"]
            /\ UNCHANGED <<now, store, cfg, run, work, fpath, loc, counts,
                           scratch, runs, uploads, result, todo, prev>>

\* The rebuild is outside the try block: an exception of the paginator, the
\* KeyError of a page without "Contents" or an interrupt, after any number
\* n of listed objects went through the loop, ends the process with nothing
\* written.
RebuildAbort(p) ==
    /\ pc[p] = "rebuild"
    /\ \E n \in 0 .. Cardinality(Listing) :
          ExitWith(p, "crashed",
                   RebuildOver(cache[p], SubSeq(SortedSeq(Listing), 1, n), now))
    /\ UNCHANGED <<now, store, disk, cfg, scratch, runs, inserted, uploads>>

\* Stage 2 set-up: counters and the snapshot list(cache[...].keys()).
LoopInit(p) ==
    /\ pc[p] = "loop"
    /\ work' = [work EXCEPT
                   ![p] = DictKeys(IterBucket(cfg[p].script, cache[p]))]
    /\ todo' = [todo EXCEPT
                   ![p] = KeySet(IterBucket(cfg[p].script, cache[p]))]
    /\ counts' = [counts EXCEPT ![p] = NoCounts]
    /\ pc' = [pc EXCEPT ![p] = "next"]
    /\ UNCHANGED <<now, store, disk, cfg, run, cache, fpath, loc, scratch, runs,
                   inserted, uploads, result, prev>>

\* The for statement: next key, or loop exhausted and on to `finally`.
NextKey(p) ==
    /\ pc[p] = "next"
    /\ IF work[p] = <<>>
       THEN /\ pc' = [pc EXCEPT ![p] = "finally"]
            /\ run' = [run EXCEPT ![p].status = "complete"]
            /\ fpath' = [fpath EXCEPT ![p] = 0]
            /\ UNCHANGED <<work, loc>>
       ELSE /\ pc' = [pc EXCEPT ![p] = "fetch"]
            /\ fpath' = [fpath EXCEPT ![p] = Head(work[p])]
            /\ work' = [work EXCEPT ![p] = Tail(@)]
            /\ loc' = [loc EXCEPT ![p] = InitLoc]
            /\ UNCHANGED run
    /\ UNCHANGED <<now, store, disk, cfg, cache, counts, scratch, runs, inserted,
                   uploads, result, todo, prev>>

(***************************************************************************)
(* The loop body.  Every remote call and every conversion may raise; the   *)
(* per-key handler `except Exception` turns that into an errored record.   *)
(***************************************************************************)
\* Variant: no per-key handler, the exception ends the loop.
Raise_EndsLoop(p, call, e) ==
    /\ loc' = [loc EXCEPT ![p].exc = TRUE,
                          ![p].env = Append(@, <<call, "raise">>)]
    /\ pc' = [pc EXCEPT ![p] = "finally"]

\* Control reaches the handler with exception description e.
Raise(p, call, e) ==
    /\ loc' = [loc EXCEPT ![p].dest = "errored", ![p].msg = ErrorMsg(e),
                          ![p].exc = TRUE,
                          ![p].env = Append(@, <<call, "raise">>)]
    /\ pc' = [pc EXCEPT ![p] = "mark"]

\* Variant: the `success` filter is missing.
Fetch_NoFilter(p) ==
    /\ pc[p] = "fetch"
    /\ \E outcome \in {"ClientError", "KeyError", "unusable", "usable"} :
          IF outcome \in {"ClientError", "KeyError"}
          THEN Raise(p, "fetch", outcome)
          ELSE /\ loc' = [loc EXCEPT
                             ![p].env = Append(@, <<"fetch", outcome>>)]
               /\ pc' = [pc EXCEPT ![p] = "download"]
    /\ UNCHANGED <<now, store, disk, cfg, run, cache, work, fpath, counts, scratch,
                   runs, inserted, uploads, result, todo, prev>>

\* Metadata download and parse, the `success` filter and the path fields.
Fetch(p) ==
    /\ pc[p] = "fetch"
    /\ \E outcome \in {"ClientError", "KeyError", "unusable", "usable"} :
          CASE outcome \in {"ClientError", "KeyError"} ->
                  Raise(p, "fetch", outcome)
            [] outcome = "unusable" ->
                  /\ loc' = [loc EXCEPT
                                ![p].dest = "failure-trajectories",
                                ![p].env = Append(@, <<"fetch", outcome>>)]
                  /\ pc' = [pc EXCEPT ![p] = "mark"]
            [] outcome = "usable" ->
                  /\ loc' = [loc EXCEPT
                                ![p].env = Append(@, <<"fetch", outcome>>)]
                  /\ pc' = [pc EXCEPT ![p] = "download"]
    /\ UNCHANGED <<now, store, disk, cfg, run, cache, work, fpath, counts, scratch,
                   runs, inserted, uploads, result, todo, prev>>

\* One client.download_file into the scratch directory.
Download(p) ==
    /\ pc[p] = "download"
    /\ LET raw == RawFiles(cfg[p].script)
           i == loc[p].dl + 1
       IN  \E ok \in BOOLEAN :
              IF ok
              THEN /\ scratch' = [scratch EXCEPT
                                     ![cfg[p].host][raw[i]] = {fpath[p]}]
                   /\ loc' = [loc EXCEPT
                                 ![p].dl = i,
                                 ![p].env = Append(@, <<"download", "ok">>)]
                   /\ pc' = [pc EXCEPT ![p] = IF i = Len(raw) THEN "convert"
                                              ELSE "download"]
              ELSE /\ Raise(p, "download", "ClientError")
                   /\ UNCHANGED scratch
    /\ UNCHANGED <<now, store, disk, cfg, run, cache, work, fpath, counts, runs,
                   inserted, uploads, result, todo, prev>>

\* export_mp4(svo, tmp, stereo_view="both"): on success the stereo MP4 of
\* the recording is written beside it.
ExportMp4(files, src, out, ok) ==
    IF ok THEN [files EXCEPT ![out] = files[src]] ELSE files

\* ffmpeg hstack of left.mp4 and right.mp4 into fused.mp4.
Ffmpeg(files) ==
    [files EXCEPT !["fused.mp4"] = files["left.mp4"] \cup files["right.mp4"]]

\* Variant: the first conversion that reports failure ends the key.
ConvertStereo_ShortCircuit(p) ==
    /\ pc[p] = "convert"
    /\ Stereo(cfg[p].script)
    /\ LET i == Len(loc[p].conv) + 1
           h == cfg[p].host
       IN  \E r \in {"True", "False", "raise"} :
              IF r = "raise"
              THEN /\ Raise(p, "convert", "RuntimeError")
                   /\ UNCHANGED scratch
              ELSE LET flags == Append(loc[p].conv, r = "True")
                       env == Append(loc[p].env, <<"convert", r>>)
                   IN  /\ scratch' = [scratch EXCEPT ![h] =
                              ExportMp4(@, RawFiles(cfg[p].script)[i],
                                        OutFiles(cfg[p].script)[i], r = "True")]
                       /\ IF r = "False"
                          THEN /\ loc' = [loc EXCEPT
                                    ![p].conv = flags, ![p].env = env,
                                    ![p].dest = "errored",
                                    ![p].msg = ErrorMsg("Failure to Convert")]
                               /\ pc' = [pc EXCEPT ![p] = "mark"]
                          ELSE /\ loc' = [loc EXCEPT ![p].conv = flags,
                                                     ![p].env = env]
                               /\ pc' = [pc EXCEPT ![p] = IF i < 3 THEN "convert"
                                                          ELSE "upload"]
    /\ UNCHANGED <<now, store, disk, cfg, run, cache, work, fpath, counts, runs,
                   inserted, uploads, result, todo, prev>>

\* Stereo scripts: one export_mp4 call; after the third, the AND of the flags.
ConvertStereo(p) ==
    /\ pc[p] = "convert"
    /\ Stereo(cfg[p].script)
    /\ LET i == Len(loc[p].conv) + 1
           h == cfg[p].host
       IN  \E r \in {"True", "False", "raise"} :
              IF r = "raise"
              THEN /\ Raise(p, "convert", "RuntimeError")
                   /\ UNCHANGED scratch
              ELSE LET flags == Append(loc[p].conv, r = "True")
                       env == Append(loc[p].env, <<"convert", r>>)
                   IN  /\ scratch' = [scratch EXCEPT ![h] =
                              ExportMp4(@, RawFiles(cfg[p].script)[i],
                                        OutFiles(cfg[p].script)[i], r = "True")]
                       /\ IF i < 3
                          THEN /\ loc' = [loc EXCEPT ![p].conv = flags,
                                                     ![p].env = env]
                               /\ UNCHANGED pc
                          ELSE IF AllTrue(flags)
                          THEN /\ loc' = [loc EXCEPT ![p].conv = flags,
                                                     ![p].env = env]
                               /\ pc' = [pc EXCEPT ![p] = "upload"]
                          ELSE /\ loc' = [loc EXCEPT ![p].conv = flags,
                                              ![p].env = env,
                                              ![p].dest = "errored",
                                              ![p].msg = ConvertMsg(flags)]
                               /\ pc' = [pc EXCEPT ![p] = "mark"]
    /\ UNCHANGED <<now, store, disk, cfg, run, cache, work, fpath, counts, runs,
                   inserted, uploads, result, todo, prev>>

\* Variant: subprocess.run without check=True, a failed ffmpeg goes unnoticed.
ConvertStitched_NoCheck(p) ==
    /\ pc[p] = "convert"
    /\ cfg[p].script = "stitched"
    /\ \E ok \in BOOLEAN :
          /\ scratch' = IF ok THEN [scratch EXCEPT ![cfg[p].host] = Ffmpeg(@)]
                        ELSE scratch
          /\ loc' = [loc EXCEPT
                        ![p].conv = <<ok>>,
                        ![p].env = Append(@, <<"convert", PyBool(ok)>>)]
          /\ pc' = [pc EXCEPT ![p] = "upload"]
    /\ UNCHANGED <<now, store, disk, cfg, run, cache, work, fpath, counts, runs,
                   inserted, uploads, result, todo, prev>>

\* json2stitched: subprocess.run(ffmpeg ..., check=True).
ConvertStitched(p) ==
    /\ pc[p] = "convert"
    /\ cfg[p].script = "stitched"
    /\ \E ok \in BOOLEAN :
          IF ok
          THEN /\ scratch' = [scratch EXCEPT ![cfg[p].host] = Ffmpeg(@)]
               /\ loc' = [loc EXCEPT
                             ![p].conv = <<TRUE>>,
                             ![p].env = Append(@, <<"convert", "True">>)]
               /\ pc' = [pc EXCEPT ![p] = "upload"]
          ELSE /\ Raise(p, "convert", "CalledProcessError")
               /\ UNCHANGED scratch
    /\ UNCHANGED <<now, store, disk, cfg, run, cache, work, fpath, counts, runs,
                   inserted, uploads, result, todo, prev>>

\* s3upload: True, or False on ClientError; any other exception propagates.
\* Stereo scripts: one call; after the third, the AND of the flags.
UploadStereo(p) ==
    /\ pc[p] = "upload"
    /\ Stereo(cfg[p].script)
    /\ LET i == Len(loc[p].up) + 1
           out == OutFiles(cfg[p].script)[i]
       IN  \E r \in {"True", "False", "raise"} :
              IF r = "raise"
              THEN /\ Raise(p, "upload", "S3UploadFailedError")
                   /\ UNCHANGED uploads
              ELSE LET flags == Append(loc[p].up, r = "True")
                       env == Append(loc[p].env, <<"upload", r>>)
                   IN  /\ uploads' =
                              IF r = "True"
                              THEN uploads \cup
                                     {<<fpath[p], scratch[cfg[p].host][out]>>}
                              ELSE uploads
                       /\ IF i < 3
                          THEN /\ loc' = [loc EXCEPT ![p].up = flags,
                                                     ![p].env = env]
                               /\ UNCHANGED pc
                          ELSE /\ loc' = [loc EXCEPT
                                    ![p].up = flags,
                                    ![p].env = env,
                                    ![p].dest = IF AllTrue(flags)
                                                THEN "exported" ELSE "errored",
                                    ![p].msg = IF AllTrue(flags) THEN <<>>
                                               ELSE UploadMsg(flags)]
                               /\ pc' = [pc EXCEPT ![p] = "mark"]
    /\ UNCHANGED <<now, store, disk, cfg, run, cache, work, fpath, counts, scratch,
                   runs, inserted, result, todo, prev>>

\* json2stitched: the destination name from the key's stem (IndexError when
\* the stem has no "_"), then one s3upload.
UploadStitched(p) ==
    /\ pc[p] = "upload"
    /\ cfg[p].script = "stitched"
    /\ \E r \in {"True", "False", "raise"} :
          IF r = "raise"
          THEN /\ Raise(p, "upload", "IndexError")
               /\ UNCHANGED uploads
          ELSE /\ uploads' =
                      IF r = "True"
                      THEN uploads \cup
                             {<<fpath[p], scratch[cfg[p].host]["fused.mp4"]>>}
                      ELSE uploads
               /\ loc' = [loc EXCEPT
                             ![p].up = <<r = "True">>,
                             ![p].env = Append(@, <<"upload", r>>),
                             ![p].dest = IF r = "True" THEN "exported"
                                         ELSE "errored",
                             ![p].msg = IF r = "True" THEN <<>>
                                        ELSE ErrorMsg("ClientError")]
               /\ pc' = [pc EXCEPT ![p] = "mark"]
    /\ UNCHANGED <<now, store, disk, cfg, run, cache, work, fpath, counts, scratch,
                   runs, inserted, result, todo, prev>>

(***************************************************************************)
(* The cache update of a key: the write into the destination bucket, then  *)
(* the pop from the bucket the loop walks.                                 *)
(***************************************************************************)
WriteDest(c, k, dest, msg, t) ==
    CASE dest = "failure-trajectories" ->
             [c EXCEPT !.failure_trajectories = DictSet(@, k, t)]
      [] dest = "exported" -> [c EXCEPT !.exported = DictSet(@, k, t)]
      [] dest = "errored" -> [c EXCEPT !.errored = DictSet(@, k, <<t, msg>>)]

\* Variant: the key is taken out of every bucket but its destination.
PopSource_MoveOut(script, c, k, dest) ==
    [new |-> DictPop(c.new, k),
     exported |-> IF dest = "exported" THEN c.exported
                  ELSE DictPop(c.exported, k),
     failure_trajectories |->
         IF dest = "failure-trajectories" THEN c.failure_trajectories
         ELSE DictPop(c.failure_trajectories, k),
     errored |-> IF dest = "errored" THEN c.errored ELSE DictPop(c.errored, k)]

\* json2stitched pops from `errored` unless the key is errored again (its
\* pops from `new` are commented out); the stereo scripts pop from `new`.
PopSource(script, c, k, dest) ==
    IF Stereo(script) THEN [c EXCEPT !.new = DictPop(@, k)]
    ELSE IF dest # "errored" THEN [c EXCEPT !.errored = DictPop(@, k)]
    ELSE c

\* n_success / n_errored of the stereo scripts; the handler counts nothing.
Count(script, n, dest, exc) ==
    IF ~Stereo(script) \/ exc THEN n
    ELSE IF dest = "errored" THEN [n EXCEPT !.n_errored = @ + 1]
    ELSE [n EXCEPT !.n_success = @ + 1]

Mark(p) ==
    /\ pc[p] = "mark"
    /\ cache' = [cache EXCEPT
                    ![p] = WriteDest(@, fpath[p], loc[p].dest, loc[p].msg, now)]
    /\ pc' = [pc EXCEPT ![p] = "pop"]
    /\ UNCHANGED <<now, store, disk, cfg, run, work, fpath, loc, counts, scratch,
                   runs, inserted, uploads, result, todo, prev>>

Pop(p) ==
    /\ pc[p] = "pop"
    /\ cache' = [cache EXCEPT
                    ![p] = PopSource(cfg[p].script, @, fpath[p], loc[p].dest)]
    /\ counts' = [counts EXCEPT
                     ![p] = Count(cfg[p].script, @, loc[p].dest, loc[p].exc)]
    /\ result' = [result EXCEPT ![p][fpath[p]] = Fate(loc[p].env)]
    /\ pc' = [pc EXCEPT ![p] = "next"]
    /\ UNCHANGED <<now, store, disk, cfg, run, work, fpath, loc, scratch, runs,
                   inserted, uploads, todo, prev>>

\* KeyboardInterrupt anywhere inside the outer try: not an Exception, so the
\* per-key handler lets it through to `finally`.
InTry == {"next", "fetch", "download", "convert", "upload", "mark", "pop"}

Interrupt(p) ==
    /\ pc[p] \in InTry
    /\ pc' = [pc EXCEPT ![p] = "finally"]
    /\ run' = [run EXCEPT ![p].status = "interrupted"]
    /\ UNCHANGED <<now, store, disk, cfg, cache, work, fpath, loc, counts, scratch,
                   runs, inserted, uploads, result, todo, prev>>

\* Variant: the process ends without the dump of the cache.
Finally_NoDump(p) ==
    /\ pc[p] = "finally"
    /\ Exit(p, run[p].status)
    /\ UNCHANGED <<now, store, disk, cfg, scratch, runs, inserted, uploads>>

\* finally: dump the cache to the ledger file; the process ends.
Finally(p) ==
    /\ pc[p] = "finally"
    /\ disk' = [disk EXCEPT ![cfg[p].ledger] = File(cache[p])]
    /\ Exit(p, run[p].status)
    /\ UNCHANGED <<now, store, cfg, scratch, runs, inserted, uploads>>

\* The clock advances (between invocations: one run reads one time; after
\* the last invocation nothing reads it).
Tick ==
    /\ now < MaxTime
    /\ runs < MaxRuns
    /\ \A p \in Procs : pc[p] = "idle"
    /\ now' = now + 1
    /\ UNCHANGED <<store, disk, cfg, pc, run, cache, work, fpath, loc, counts,
                   scratch, runs, inserted, uploads, result, todo, prev>>

(***************************************************************************)
(* Specification Spec: repeated invocations of one unsharded script on one *)
(* host.  The two scripts have separate ledgers and scratch directories,   *)
(* so a behaviour follows one of them.  json2stitched walks `errored`,     *)
(* which only its earlier revision (the loop over `new`, now commented     *)
(* out) filled: its ledger starts with any set of keys in `errored`.       *)
(***************************************************************************)
OldErrored(E) ==
    [EmptyCache EXCEPT
        !.errored = [i \in 1 .. Cardinality(E) |->
                        <<SortedSeq(E)[i], <<0, ErrorMsg("ClientError")>>>>]]

\* Only rebuild adds keys to a ledger: the keys of a ledger that exists at
\* the start were inserted by an earlier rebuild.
InsertedSoFar(d) ==
    [f \in Paths |-> KeySet(d[f].data.new) \cup KeySet(d[f].data.exported)
                       \cup KeySet(d[f].data.failure_trajectories)
                       \cup KeySet(d[f].data.errored)]

InitProcs(r) ==
    /\ pc = [p \in Procs |-> "idle"]
    /\ run = [p \in Procs |-> NoRun]
    /\ cache = [p \in Procs |-> EmptyCache]
    /\ work = [p \in Procs |-> <<>>]
    /\ fpath = [p \in Procs |-> 0]
    /\ loc = [p \in Procs |-> InitLoc]
    /\ counts = [p \in Procs |-> NoCounts]
    /\ result = [p \in Procs |-> NoResult]
    /\ todo = [p \in Procs |-> {}]
    /\ prev = [p \in Procs |-> [rebuild |-> FALSE, status |-> "none",
                                client |-> FALSE,
                                clean |-> TRUE, result |-> NoResult,
                                rest |-> {}, sets |-> NoSets]]
    /\ now = 0
    /\ scratch = EmptyScratch
    /\ runs = r
    /\ uploads = {}

Init ==
    /\ InitProcs(0)
    /\ store \in SUBSET (1 .. NListed) \ {{}}
    /\ \E script \in {"stitched", "full"} :
          /\ cfg = [p \in Procs |-> IF p = 1 THEN Unsharded(script) ELSE NoCfg]
          /\ \/ \E E \in SUBSET store :
                   /\ script = "full" => E = {}
                   /\ disk = [f \in Paths |->
                                 IF f = CACHE_FILE("stitched") /\ E # {}
                                 THEN File(OldErrored(E)) ELSE NoFile]
             \/ disk = [f \in Paths |-> IF f = CACHE_FILE(script)
                                         THEN Unreadable ELSE NoFile]
    /\ inserted = InsertedSoFar(disk)

Next ==
    \/ Tick
    \/ \E p \in Procs :
          \/ Start(p)
          \/ Load(p)
          \/ Rebuild(p)
          \/ RebuildAbort(p)
          \/ LoopInit(p)
          \/ NextKey(p)
          \/ Fetch(p)
          \/ Download(p)
          \/ ConvertStereo(p)
          \/ ConvertStitched(p)
          \/ UploadStereo(p)
          \/ UploadStitched(p)
          \/ Mark(p)
          \/ Pop(p)
          \/ Interrupt(p)
          \/ Finally(p)

Spec == Init /\ [][Next]_vars

(***************************************************************************)
(* Specification SpecRun: the last invocation of a script over a ledger    *)
(* whose walked bucket holds every key of the store (a work list k1..kn).  *)
(***************************************************************************)
Pending(P) ==
    [EmptyCache EXCEPT
        !.new = [i \in 1 .. Cardinality(P) |-> <<SortedSeq(P)[i], 0>>]]

InitRun ==
    /\ InitProcs(MaxRuns - 1)
    /\ store = Keys
    /\ \E script \in {"stitched", "full"} :
          /\ cfg = [p \in Procs |-> IF p = 1 THEN Unsharded(script) ELSE NoCfg]
          /\ disk = [f \in Paths |->
                        IF f # CACHE_FILE(script) THEN NoFile
                        ELSE IF script = "stitched"
                             THEN File(OldErrored(Keys))
                             ELSE File(Pending(Keys))]
    /\ inserted = InsertedSoFar(disk)

SpecRun == InitRun /\ [][Next]_vars

(***************************************************************************)
(* The shard splitter that writes X-SHARD-{i}.json from the cache of the   *)
(* full script (the sharded script's docstring).  The pending keys are     *)
(* dealt round-robin into N groups; every shard carries the four buckets   *)
(* with `new` restricted to its group.                                     *)
(***************************************************************************)
\* Variant: the group index is off by one.
ShardGroup_OffByOne(d, N, i) ==
    LET idx == {j \in 1 .. Len(d) : (j - 1) % N = i}
    IN  [n \in 1 .. Cardinality(idx) |-> d[SortedSeq(idx)[n]]]

ShardGroup(d, N, i) ==
    LET idx == {j \in 1 .. Len(d) : (j - 1) % N = i - 1}
    IN  [n \in 1 .. Cardinality(idx) |-> d[SortedSeq(idx)[n]]]

\* Variant: every shard carries the whole pending bucket.
Shard_Whole(c, N, i) == c

Shard(c, N, i) == [c EXCEPT !.new = ShardGroup(c.new, N, i)]

Split(N) ==
    /\ disk[CACHE_FILE("full")].exists
    /\ \A i \in 1 .. MaxShards : ~disk[ShardFile(i)].exists
    /\ disk' = [f \in Paths |->
                  IF \E i \in 1 .. N : f = ShardFile(i)
                  THEN File(Shard(disk[CACHE_FILE("full")].data, N, f[2]))
                  ELSE disk[f]]
    /\ inserted' = InsertedSoFar(disk')
    /\ UNCHANGED <<now, store, cfg, pc, run, cache, work, fpath, loc, counts,
                   scratch, runs, uploads, result, todo, prev>>

(***************************************************************************)
(* Specification SpecShards: the cache of the full script is split into N  *)
(* shards; worker p runs sharded_svo2stereo.py on X-SHARD-{p}.json, the    *)
(* two workers concurrently, on one host or on two, each to completion.    *)
(***************************************************************************)
InitShards ==
    /\ InitProcs(0)
    /\ store = 1 .. NSharded
    /\ \E h \in Hosts :
          cfg = [p \in Procs |-> [script |-> "sharded", ledger |-> ShardFile(p),
                                  host |-> IF p = 1 THEN 1 ELSE h]]
    /\ \E P \in SUBSET store :
          disk = [f \in Paths |-> IF f = CACHE_FILE("full")
                                  THEN File(Pending(P)) ELSE NoFile]
    /\ inserted = InsertedSoFar(disk)

NextShards ==
    \/ \E N \in 1 .. MaxShards : Split(N)
    \/ \E p \in Procs :
          \/ Start(p)
          \/ StartFail(p)
          \/ Load(p)
          \/ LoopInit(p)
          \/ NextKey(p)
          \/ Fetch(p)
          \/ Download(p)
          \/ ConvertStereo(p)
          \/ UploadStereo(p)
          \/ Mark(p)
          \/ Pop(p)
          \/ Finally(p)

SpecShards == InitShards /\ [][NextShards]_vars

(***************************************************************************)
(* Properties.                                                             *)
(***************************************************************************)
Disjoint4(b) ==
    /\ b.new \cap b.exported = {}
    /\ b.new \cap b.failure_trajectories = {}
    /\ b.new \cap b.errored = {}
    /\ b.exported \cap b.failure_trajectories = {}
    /\ b.exported \cap b.errored = {}
    /\ b.failure_trajectories \cap b.errored = {}

Union4(b) == b.new \cup b.exported \cup b.failure_trajectories \cup b.errored

Ledger(p) == disk[cfg[p].ledger].data

\* In Spec the ledger of full_svo2stereo starts absent, which the script
\* reads as the empty cache, or unreadable, and then no run is clean (the
\* ledger of json2stitched may start with keys in `errored`).
StartsEmpty(p) == cfg[p].script = "full"

\* C1: starting from the empty cache, after any sequence of rebuilds and
\* uninterrupted runs the four buckets of the ledger are pairwise disjoint
\* and their union is the set of keys rebuild ever inserted.  (Checked where
\* a rebuild or a run has just ended and no invocation so far was
\* interrupted.)
C1_Partition ==
    \A p \in Procs :
        (StartsEmpty(p) /\ prev[p].clean /\ pc[p] \in {"idle", "loop"})
            => /\ Disjoint4(BucketSets(Ledger(p)))
               /\ Union4(BucketSets(Ledger(p))) = inserted[cfg[p].ledger]

\* C10: a rebuild never re-enters into `new` a key that is already in
\* `failure-trajectories`.
C10_NonUsableNotReentered ==
    [][\A p \in Procs :
          (pc[p] = "rebuild" /\ pc'[p] = "loop")
              => \A k \in KeySet(cache[p].failure_trajectories) :
                    ~Has(cache[p].new, k) => ~Has(cache'[p].new, k)]_vars

\* Key k is in bucket b of cache c and in no other bucket.
OnlyIn(c, k, b) ==
    /\ Has(c.new, k) <=> b = "new"
    /\ Has(c.exported, k) <=> b = "exported"
    /\ Has(c.failure_trajectories, k) <=> b = "failure-trajectories"
    /\ Has(c.errored, k) <=> b = "errored"

\* The bucket the outcome of a key implies.
BucketOf(fate) ==
    CASE fate = "ok" -> "exported"
      [] fate = "unusable" -> "failure-trajectories"
      [] fate = "failed" -> "errored"

\* C2: failure isolation.  When the loop of a run that was not interrupted
\* is over, every key of the work list has been processed; a key that
\* failed at any step (an exception or a reported failure) is in `errored`
\* with a non-empty message and every key is in the bucket its own outcome
\* implies, and in no other.
C2_FailureIsolation ==
    \A p \in Procs :
        (pc[p] = "finally" /\ run[p].status # "interrupted")
            => \A k \in todo[p] :
                  /\ result[p][k] # "none"
                  /\ OnlyIn(cache[p], k, BucketOf(result[p][k]))
                  /\ result[p][k] = "failed"
                        => DictGet(cache[p].errored, k)[2] # <<>>

\* Three keys, the conversion fails for the second only: 1 and 3 exported,
\* 2 errored with the conversion message.
C2_Witness ==
    /\ pc[1] = "finally" /\ run[1].status = "complete"
    /\ cfg[1].script = "full"
    /\ todo[1] = {1, 2, 3}
    /\ result[1] = (1 :> "ok" @@ 2 :> "failed" @@ 3 :> "ok")
    /\ KeySet(cache[1].exported) = {1, 3}
    /\ KeySet(cache[1].errored) = {2}
    /\ DictGet(cache[1].errored, 2)[2] = ConvertMsg(<<TRUE, FALSE, TRUE>>)

\* C3: crash-safe persistence (stereo scripts).  After an interrupted run
\* the ledger on disk has every key completed before the interrupt in its
\* terminal bucket and every key not yet started still in `new`.
C3_CrashSafe ==
    \A p \in Procs :
        (pc[p] = "idle" /\ Stereo(cfg[p].script)
            /\ prev[p].status = "interrupted")
            => /\ \A k \in Keys :
                     prev[p].result[k] # "none"
                        => OnlyIn(Ledger(p), k, BucketOf(prev[p].result[k]))
               /\ \A k \in prev[p].rest : OnlyIn(Ledger(p), k, "new")

\* Interrupted after key 1 was exported and before key 2 started.
C3_Witness ==
    /\ pc[1] = "idle" /\ cfg[1].script = "full"
    /\ prev[1].status = "interrupted"
    /\ prev[1].result = (1 :> "ok" @@ 2 :> "none" @@ 3 :> "none")
    /\ prev[1].rest = {2, 3}
    /\ Has(Ledger(1).exported, 1)
    /\ Has(Ledger(1).new, 2)

\* C4: a key whose metadata says success = false goes to
\* `failure-trajectories` and leaves the bucket the loop walks, and no
\* download, conversion or upload is issued for it.
C4_NonUsable ==
    \A p \in Procs :
        /\ \A k \in Keys :
              (result[p][k] = "unusable" /\ pc[p] # "idle")
                 => /\ Has(cache[p].failure_trajectories, k)
                    /\ ~Has(IterBucket(cfg[p].script, cache[p]), k)
                    /\ \A u \in uploads : u[1] # k
        /\ (pc[p] \in {"mark", "pop", "next"}
                /\ Fate(loc[p].env) = "unusable")
              => /\ Issued(loc[p].env, "download") = 0
                 /\ Issued(loc[p].env, "convert") = 0
                 /\ Issued(loc[p].env, "upload") = 0
                 /\ loc[p].dest = "failure-trajectories"

C4_Witness ==
    \E p \in Procs :
        /\ pc[p] = "next" /\ fpath[p] = 2
        /\ result[p][2] = "unusable"
        /\ Fate(loc[p].env) = "unusable"
        /\ Has(cache[p].failure_trajectories, 2)
        /\ result[p][1] = "ok"

\* The calls for the current key went as far as the three downloads and
\* none of the calls raised.
Downloaded(p) ==
    /\ Issued(loc[p].env, "download") = 3
    /\ \A i \in 1 .. Len(loc[p].env) : loc[p].env[i][2] # "raise"

\* C5: stereo outcome.  For a usable key whose three downloads succeeded,
\* once the key is marked: it is in `exported` iff the three conversions and
\* the three uploads all reported success; if a conversion reported failure
\* it is in `errored` with the message of the three conversion flags; if an
\* upload reported failure it is in `errored` with the message of the three
\* upload flags.
C5_StereoOutcome ==
    \A p \in Procs :
        (pc[p] = "next" /\ fpath[p] # 0 /\ Stereo(cfg[p].script)
            /\ Issued(loc[p].env, "download") = 3)
            => LET c == cache[p]
                   k == fpath[p]
                   conv == loc[p].conv
                   up == loc[p].up
               IN  /\ Has(c.exported, k)
                        <=> /\ Len(conv) = 3 /\ \A i \in 1 .. 3 : conv[i]
                            /\ Len(up) = 3 /\ \A i \in 1 .. 3 : up[i]
                   /\ (Downloaded(p) /\ \E i \in 1 .. Len(conv) : ~conv[i])
                        => /\ OnlyIn(c, k, "errored")
                           /\ DictGet(c.errored, k)[2] = ConvertMsg(conv)
                   /\ (Downloaded(p) /\ \E i \in 1 .. Len(up) : ~up[i])
                        => /\ OnlyIn(c, k, "errored")
                           /\ DictGet(c.errored, k)[2] = UploadMsg(up)

\* A key errored by a failed wrist upload, after a key that was exported.
C5_Witness ==
    /\ pc[1] = "next" /\ fpath[1] = 2 /\ cfg[1].script = "full"
    /\ Downloaded(1)
    /\ loc[1].conv = <<TRUE, TRUE, TRUE>>
    /\ loc[1].up = <<TRUE, TRUE, FALSE>>
    /\ DictGet(cache[1].errored, 2)[2] = UploadMsg(<<TRUE, TRUE, FALSE>>)
    /\ Has(cache[1].exported, 1)

\* C6: two sharded workers share no mutable state: every object uploaded
\* for a key is the conversion of that key's own raw files, never of files
\* the other worker downloaded.
C6_OwnArtifacts == \A u \in uploads : u[2] = {u[1]}

\* The shard files that exist and the pending keys of shard i.
ShardsWritten == {i \in 1 .. MaxShards : disk[ShardFile(i)].exists}

ShardPending(i) == KeySet(disk[ShardFile(i)].data.new)

\* C7: the shard files produced from a cache with pending set P, for any
\* shard count N >= 1, have pending sets that are pairwise disjoint and
\* whose union is P.  (Checked on the files as the split leaves them, before
\* a worker starts.)
C7_ShardsPartition ==
    (runs = 0 /\ ShardsWritten # {})
        => /\ \A i, j \in ShardsWritten :
                 i # j => ShardPending(i) \cap ShardPending(j) = {}
           /\ UNION {ShardPending(i) : i \in ShardsWritten}
                 = KeySet(disk[CACHE_FILE("full")].data.new)

\* N = 3 shards of two pending keys: the third shard is empty.
C7_Witness ==
    /\ runs = 0
    /\ ShardsWritten = {1, 2, 3}
    /\ KeySet(disk[CACHE_FILE("full")].data.new) = {1, 2}
    /\ ShardPending(1) = {1} /\ ShardPending(2) = {2}
    /\ ShardPending(3) = {}

\* The keys processed in both this run and the previous one had the same
\* outcome.
SameOutcomes(p) ==
    \A k \in Keys :
        (result[p][k] # "none" /\ prev[p].result[k] # "none")
            => result[p][k] = prev[p].result[k]

\* C8: idempotence.  A second complete run of the same script, on the ledger
\* a first complete run persisted, over the unchanged store with the same
\* per-key outcomes, leaves the key set of each bucket unchanged.
C8_Idempotent ==
    \A p \in Procs :
        (pc[p] = "finally" /\ run[p].status = "complete"
            /\ prev[p].status = "complete"
            /\ prev[p].rebuild = run[p].rebuild
            /\ SameOutcomes(p))
            => BucketSets(cache[p]) = prev[p].sets

\* C9: rebuild stability.  The rebuild step leaves every entry of
\* `exported`, `errored` and `failure-trajectories` as it was, and a key
\* that is in `exported` or in `errored` is not inserted into `new`.
C9_RebuildStable ==
    [][\A p \in Procs :
          (pc[p] = "rebuild" /\ pc'[p] = "loop")
              => /\ cache'[p].exported = cache[p].exported
                 /\ cache'[p].errored = cache[p].errored
                 /\ cache'[p].failure_trajectories
                       = cache[p].failure_trajectories
                 /\ \A k \in KeySet(cache[p].exported)
                              \cup KeySet(cache[p].errored) :
                       Has(cache'[p].new, k) => Has(cache[p].new, k)]_vars

\* After a rebuild, at a later time, over a listing whose keys are one in
\* `exported` and one in `errored`: neither is pending.
C9_Witness ==
    /\ pc[1] = "loop" /\ run[1].rebuild
    /\ store = {1, 2}
    /\ now = 1
    /\ KeySet(cache[1].exported) = {1}
    /\ KeySet(cache[1].errored) = {2}
    /\ cache[1].new = <<>>
    /\ disk[cfg[1].ledger] = File(cache[1])

\* C11: the ledger is persisted on every exit path: whenever an invocation
\* has ended (completion, exception or interrupt, in the rebuild or in the
\* loop), the ledger on disk holds the keys of the cache that was in memory
\* at termination (an absent file reads as the empty cache).
C11_PersistedOnExit ==
    \A p \in Procs :
        (pc[p] = "idle" /\ prev[p].status # "none")
            => BucketSets(Ledger(p)) = prev[p].sets

\* C12: a ledger file in an unreadable format makes the pipeline continue
\* with the empty cache: the load step of a process whose ledger file is
\* unreadable goes on to the rebuild or to the loop with four empty buckets.
C12_UnreadableFallsBack ==
    [][\A p \in Procs :
          (pc[p] = "load" /\ pc'[p] # "load"
              /\ disk[cfg[p].ledger].exists /\ ~disk[cfg[p].ledger].readable)
              => /\ pc'[p] \in {"rebuild", "loop"}
                 /\ cache'[p] = EmptyCache]_vars

\* C13: the sharded entry point with a shard path that does not exist ends
\* with an error before the client is created or any remote call is made,
\* and no ledger file is created or modified.
C13_MissingShard ==
    [][\A p \in Procs :
          (cfg[p].script = "sharded" /\ pc[p] = "idle"
              /\ ~disk[cfg[p].ledger].exists
              /\ <<pc[p], run[p], prev[p]>>' # <<pc[p], run[p], prev[p]>>)
              => /\ pc'[p] = "idle"
                 /\ prev'[p].status = "usage"
                 /\ ~prev'[p].client
                 /\ prev'[p].result = NoResult
                 /\ disk' = disk
                 /\ uploads' = uploads
                 /\ scratch' = scratch]_vars

\* The cache was split into one shard; worker 2 was started on the shard
\* file X-SHARD-2.json, which does not exist, after worker 1 had run.
C13_Witness ==
    /\ pc[2] = "idle" /\ prev[2].status = "usage"
    /\ ~disk[ShardFile(2)].exists
    /\ disk[ShardFile(1)].exists
    /\ prev[1].status = "complete"

\* The keys this run has processed with one of the given outcomes.
Processed(p, fates) == {k \in Keys : result[p][k] \in fates}

\* C14: progress accounting of the stereo scripts.  After each key,
\* n_success is the number of keys this run moved to `exported` or to
\* `failure-trajectories`, n_errored the number it moved to `errored`, and
\* their sum the number of keys processed so far.
C14_Accounting ==
    \A p \in Procs :
        (pc[p] = "next" /\ Stereo(cfg[p].script))
            => /\ counts[p].n_success
                     = Cardinality(Processed(p, {"ok", "unusable"}))
               /\ counts[p].n_errored = Cardinality(Processed(p, {"failed"}))
               /\ counts[p].n_success + counts[p].n_errored
                     = Cardinality(Processed(p, {"ok", "unusable", "failed"}))

\* The terminal buckets of cache c that hold key k.
TerminalOf(c, k) ==
    {b \in {"exported", "failure-trajectories", "errored"} :
        \/ b = "exported" /\ Has(c.exported, k)
        \/ b = "failure-trajectories" /\ Has(c.failure_trajectories, k)
        \/ b = "errored" /\ Has(c.errored, k)}

\* C15: when the loop of a stereo run that was not interrupted is over,
\* every key that was in `new` at loop start has been attempted, `new` is
\* empty and each of those keys is in exactly one of `exported`,
\* `failure-trajectories`, `errored`.
C15_RunCompletes ==
    \A p \in Procs :
        (pc[p] = "finally" /\ run[p].status = "complete"
            /\ Stereo(cfg[p].script))
            => /\ cache[p].new = <<>>
               /\ work[p] = <<>>
               /\ \A k \in todo[p] :
                     /\ result[p][k] # "none"
                     /\ Cardinality(TerminalOf(cache[p], k)) = 1

\* In SpecRun the work list of the run is Keys: the key that was in flight
\* when the previous invocation ended was started and not finished.
InFlight(p) ==
    {k \in Keys : prev[p].result[k] = "none" /\ k \notin prev[p].rest}

\* C16: atomic bucket move under interruption.  The ledger persisted by an
\* interrupted run has every key in exactly one bucket, and the key that
\* was in flight is still in the bucket the loop walks (`new` for the stereo
\* scripts) and not in `exported`.
C16_AtomicMove ==
    \A p \in Procs :
        (pc[p] = "idle" /\ prev[p].status = "interrupted")
            => /\ Disjoint4(BucketSets(Ledger(p)))
               /\ \A k \in InFlight(p) :
                     /\ Has(IterBucket(cfg[p].script, Ledger(p)), k)
                     /\ ~Has(Ledger(p).exported, k)

\* The positions of a process at which the per-key loop is running.
InLoop == {"next", "fetch", "download", "convert", "upload", "mark", "pop"}

\* C17: monotonic terminal buckets.  Across rebuilds and runs, interrupted
\* or not, no key ever leaves `exported` or `failure-trajectories`, on disk
\* and in the memory of a running process; and within the loop of a stereo
\* run no key of `exported`, `failure-trajectories` or `errored` goes back
\* into `new`.
C17_Monotonic ==
    [][/\ disk' # disk
            => \A f \in Paths :
                  /\ KeySet(disk[f].data.exported)
                        \subseteq KeySet(disk'[f].data.exported)
                  /\ KeySet(disk[f].data.failure_trajectories)
                        \subseteq KeySet(disk'[f].data.failure_trajectories)
       /\ \A p \in Procs :
            cache'[p] # cache[p]
               => /\ (pc[p] \notin {"idle", "load"} /\ pc'[p] # "idle")
                        => /\ KeySet(cache[p].exported)
                                 \subseteq KeySet(cache'[p].exported)
                           /\ KeySet(cache[p].failure_trajectories)
                                 \subseteq
                                    KeySet(cache'[p].failure_trajectories)
                  /\ (pc[p] \in InLoop /\ Stereo(cfg[p].script))
                        => \A k \in KeySet(cache'[p].new) :
                              TerminalOf(cache[p], k) # {}
                                 => Has(cache[p].new, k)]_vars

\* The second run, after an interrupted first run that exported key 1, has
\* moved key 2 to `failure-trajectories`.
C17_Witness ==
    /\ pc[1] = "finally" /\ cfg[1].script = "full"
    /\ prev[1].status = "interrupted"
    /\ KeySet(Ledger(1).exported) = {1}
    /\ KeySet(cache[1].exported) = {1}
    /\ KeySet(cache[1].failure_trajectories) = {2}
    /\ cache[1].new = <<>>

\* C18: retry run of json2stitched.  When the loop of a run that was not
\* interrupted is over, every key that was in `errored` at loop start has
\* been attempted and is in exactly the bucket of its outcome among
\* `exported`, `failure-trajectories`, `errored` (there with the timestamp
\* of this run and a message), and `new` is as it was at loop start (as
\* the ledger file has it).
C18_Retry ==
    \A p \in Procs :
        (pc[p] = "finally" /\ run[p].status = "complete"
            /\ cfg[p].script = "stitched")
            => /\ cache[p].new = Ledger(p).new
               /\ \A k \in todo[p] :
                     /\ result[p][k] # "none"
                     /\ TerminalOf(cache[p], k) = {BucketOf(result[p][k])}
                     /\ result[p][k] = "failed"
                           => /\ DictGet(cache[p].errored, k)[1] = now
                              /\ DictGet(cache[p].errored, k)[2] # <<>>

\* C19: within one process no stale scratch file is uploaded: every object
\* uploaded for a key is the conversion of raw files downloaded for that
\* key, and when the uploads of a key begin every file to upload is the
\* conversion of that key's downloads.
C19_NoStaleUpload ==
    /\ \A u \in uploads : u[2] = {u[1]}
    /\ \A p \in Procs :
          pc[p] = "upload"
             => \A i \in 1 .. Len(OutFiles(cfg[p].script)) :
                   scratch[cfg[p].host][OutFiles(cfg[p].script)[i]]
                      = {fpath[p]}

\* Key 1 was uploaded, a download of key 2 failed after its first raw file
\* had replaced the one of key 1, key 3 was uploaded.
C19_Witness ==
    /\ pc[1] = "finally"
    /\ result[1] = (1 :> "ok" @@ 2 :> "failed" @@ 3 :> "ok")
    /\ Has(cache[1].errored, 2)
    /\ DictGet(cache[1].errored, 2)[2] = ErrorMsg("ClientError")
    /\ uploads = {<<1, {1}>>, <<3, {3}>>}

\* The outcomes of the calls of one kind issued for the current key.
Outcomes(p, call) ==
    {loc[p].env[i][2] : i \in {j \in 1 .. Len(loc[p].env) :
                                  loc[p].env[j][1] = call}}

\* C20: stereo scripts.  Once the body of a key is over: if a conversion was
\* issued and none raised, all three were issued, whatever the earlier
\* ones reported; if a conversion reported failure no upload was issued;
\* uploads were issued only after three conversions that all succeeded;
\* and if an upload was issued and none raised, all three were issued,
\* whatever the earlier ones reported.
C20_ConvertThenUpload ==
    \A p \in Procs :
        (Stereo(cfg[p].script) /\ pc[p] \in {"mark", "pop"})
            => /\ (Outcomes(p, "convert") # {}
                      /\ "raise" \notin Outcomes(p, "convert"))
                     => Issued(loc[p].env, "convert") = 3
               /\ "False" \in Outcomes(p, "convert")
                     => Issued(loc[p].env, "upload") = 0
               /\ Issued(loc[p].env, "upload") > 0
                     => /\ Issued(loc[p].env, "convert") = 3
                        /\ Outcomes(p, "convert") = {"True"}
               /\ (Outcomes(p, "upload") # {}
                      /\ "raise" \notin Outcomes(p, "upload"))
                     => Issued(loc[p].env, "upload") = 3

\* The left conversion and the left upload reported failure and the later
\* calls were still made: one key errored by <<FALSE, TRUE, TRUE>> of the
\* conversions, the next by <<FALSE, TRUE, TRUE>> of the uploads.
C20_Witness ==
    /\ pc[1] = "mark" /\ cfg[1].script = "full" /\ fpath[1] = 2
    /\ loc[1].conv = <<TRUE, TRUE, TRUE>>
    /\ loc[1].up = <<FALSE, TRUE, TRUE>>
    /\ Issued(loc[1].env, "upload") = 3
    /\ Has(cache[1].errored, 1)
    /\ DictGet(cache[1].errored, 1)[2] = ConvertMsg(<<FALSE, TRUE, TRUE>>)

\* The loop of full_svo2stereo over the keys of `new`, as a function of the
\* outcome of each key: the write into the bucket of the outcome, then the
\* pop from `new`.
RECURSIVE FullRun(_, _, _, _)
FullRun(c, keys, fate, t) ==
    IF keys = <<>> THEN c
    ELSE LET k == Head(keys)
             dest == BucketOf(fate[k])
         IN  FullRun(PopSource("full", WriteDest(c, k, dest, <<>>, t), k, dest),
                     Tail(keys), fate, t)

\* The union over the shard files of the key sets of the terminal buckets.
Merged ==
    [exported |->
        UNION {KeySet(disk[ShardFile(i)].data.exported) : i \in ShardsWritten},
     failure_trajectories |->
        UNION {KeySet(disk[ShardFile(i)].data.failure_trajectories) :
                  i \in ShardsWritten},
     errored |->
        UNION {KeySet(disk[ShardFile(i)].data.errored) : i \in ShardsWritten}]

\* Every shard with pending keys has been run to completion by its worker
\* (a shard without a worker has nothing pending).
ShardsDone ==
    /\ ShardsWritten # {}
    /\ \A p \in Procs : pc[p] = "idle"
    /\ \A i \in ShardsWritten :
          IF i \in Procs THEN prev[i].status = "complete"
          ELSE ShardPending(i) = {}

\* The outcome functions of the keys that agree with what the workers saw.
Fates ==
    {fate \in [Keys -> {"ok", "unusable", "failed"}] :
        \A p \in Procs : \A k \in Keys :
            prev[p].result[k] # "none" => fate[k] = prev[p].result[k]}

\* C21: shard-merge equivalence.  Once sharded_svo2stereo has run to
\* completion on every shard of the cache, the unions over the shards of
\* the key sets of `exported`, `failure-trajectories` and `errored` are the
\* three key sets full_svo2stereo leaves when run once on the unsharded
\* cache with the same outcome for each key.
C21_MergeEquivalence ==
    ShardsDone
        => \E fate \in Fates :
              LET c == disk[CACHE_FILE("full")].data
                  full == BucketSets(FullRun(c, DictKeys(c.new), fate, now))
              IN  /\ Merged.exported = full.exported
                  /\ Merged.failure_trajectories = full.failure_trajectories
                  /\ Merged.errored = full.errored

\* Two shards of one key each, both run: key 1 exported by worker 1, key 2
\* errored by worker 2.
C21_Witness ==
    /\ ShardsDone
    /\ ShardsWritten = {1, 2}
    /\ prev[1].result[1] = "ok" /\ prev[2].result[2] = "failed"
    /\ Merged.exported = {1} /\ Merged.errored = {2}
    /\ Merged.failure_trajectories = {}

\* The listed objects whose name ends in ".json" and not in
\* "_timestamps.json".
MetadataKeys(listing) ==
    {o \in listing : /\ EndsWith(Name(o), DotJson)
                     /\ ~EndsWith(Name(o), TimestampsJson)}

\* C22: rebuild filter.  The rebuild never ends in its assertion; the keys
\* it adds to `new` are listed objects that end in ".json" and not in
\* "_timestamps.json" (those not in `exported` or `errored`), with the
\* current timestamp; the directory marker and the legacy timestamps file
\* get into no bucket, and the other three buckets are left as they were.
C22_RebuildFilter ==
    [][\A p \in Procs :
          (pc[p] = "rebuild" /\ pc'[p] # "rebuild")
              => /\ prev'[p].status # "assertion"
                 /\ pc'[p] = "loop"
                       => /\ KeySet(cache'[p].new)
                               = KeySet(cache[p].new)
                                   \cup {o \in MetadataKeys(Listing) :
                                            /\ ~Has(cache[p].exported, o)
                                            /\ ~Has(cache[p].errored, o)}
                          /\ \A o \in KeySet(cache'[p].new)
                                       \ KeySet(cache[p].new) :
                                DictGet(cache'[p].new, o) = now
                          /\ Union4(BucketSets(cache'[p]))
                                \cap {DirMarker, TsObject} = {}
                          /\ cache'[p].exported = cache[p].exported
                          /\ cache'[p].errored = cache[p].errored
                          /\ cache'[p].failure_trajectories
                                = cache[p].failure_trajectories]_vars

\* A first rebuild over a listing of the directory marker, the timestamps
\* file and two metadata keys: the two keys are pending.
C22_Witness ==
    /\ pc[1] = "loop" /\ run[1].rebuild
    /\ prev[1].status = "none"
    /\ Listing = {DirMarker, TsObject, 1, 2}
    /\ Skipped(DirMarker) /\ Skipped(TsObject)
    /\ KeySet(cache[1].new) = {1, 2}
    /\ KeySet(Ledger(1).new) = {1, 2}
=============================================================================
